---- MODULE Spec2Model ----
(***************************************************************************)
(* Model of the London Ride Dash application: the start-up model load and  *)
(* the routing callback of dash_app/app.py, and the prediction callback of *)
(* dash_app/pages/prediction.py.                                           *)
(*                                                                         *)
(* Python values are records tagged with their type.  Strings that the     *)
(* code formats or parses are sequences of one-character strings, so that  *)
(* formatting and parsing are computed, character by character.  Floats    *)
(* carry their value in tenths (v10): 3.0 is PyFloat(30).               *)
(***************************************************************************)
EXTENDS Integers, Sequences, FiniteSets, TLC

VARIABLES
    phase,                \* "startup" while app.py's module body runs, then "serving"
    forecaster_pipeline,  \* app.py: the module-level model handle
    pathname,             \* the pathname of dcc.Location 'url' last routed
    page_content,         \* children of 'page-content', as returned by display_page
    model_pipeline,       \* the handle the registered calculate_prediction closes over
    children,             \* 'prediction-output'.children in the browser
    color,                \* 'prediction-output'.color in the browser
    args,                 \* arguments of the calculate_prediction call being answered
    outcome,              \* what the estimator does in that call, if asked to predict
    result,               \* what that call did: see Return and Propagate
    prev                  \* history: the latest answered call that reached predict

vars == <<phase, forecaster_pipeline, pathname, page_content, model_pipeline,
          children, color, args, outcome, result, prev>>

-----------------------------------------------------------------------------
(* Python values *)

None == [t |-> "NoneType"]
PyInt(n) == [t |-> "int", v |-> n]
PyFloat(n10) == [t |-> "float", v10 |-> n10]
PyStr(chars) == [t |-> "str", s |-> chars]
Pipeline == [t |-> "Pipeline"]

Ok(x) == [ok |-> TRUE, val |-> x]
Raise(name) == [ok |-> FALSE, exc |-> name]

DigitChars == <<"0", "1", "2", "3", "4", "5", "6", "7", "8", "9">>

IsDigit(c) == \E i \in 1..10 : DigitChars[i] = c

DigitOf(c) == (CHOOSE i \in 1..10 : DigitChars[i] = c) - 1

RECURSIVE Digits(_)
\* decimal digits of a natural number, most significant first (str(n))
Digits(n) == IF n < 10 THEN <<DigitChars[n + 1]>>
             ELSE Append(Digits(n \div 10), DigitChars[(n % 10) + 1])

RECURSIVE NumberOf(_)
\* the number written by a non-empty sequence of digit characters
NumberOf(cs) == IF Len(cs) = 1 THEN DigitOf(cs[1])
                ELSE 10 * NumberOf(SubSeq(cs, 1, Len(cs) - 1)) + DigitOf(cs[Len(cs)])

AllDigits(cs) == \A i \in 1..Len(cs) : IsDigit(cs[i])

-----------------------------------------------------------------------------
(* Calendar and the timestamp string: prediction.py lines 144-145 *)

IsLeap(y) == y % 4 = 0 /\ (y % 100 # 0 \/ y % 400 = 0)

DaysInMonth(y, m) ==
    IF m = 2 THEN (IF IsLeap(y) THEN 29 ELSE 28)
    ELSE IF m \in {4, 6, 9, 11} THEN 30 ELSE 31

\* "{:02d}" applied to a non-negative int: at least two digits, zero padded
ZeroPad2(n) == IF n < 10 THEN <<"0">> \o Digits(n) ELSE Digits(n)

\* f"{hour:02d}": the 'd' format code is defined for int only
Format02d(hour) ==
    IF hour.t # "int" THEN Raise("ValueError")
    ELSE IF hour.v >= 0 THEN Ok(ZeroPad2(hour.v))
    ELSE Ok(<<"-">> \o Digits(-hour.v))

\* f"{date_str} {hour:02d}:00:00"
date_time_str(date_str, hour) ==
    LET hh == Format02d(hour)
    IN  IF hh.ok
        THEN Ok(date_str.s \o <<" ">> \o hh.val \o <<":", "0", "0", ":", "0", "0">>)
        ELSE hh

\* pd.to_datetime on a 'YYYY-MM-DD HH:MM:SS' string: a Timestamp when the
\* fields name a real date and time of day, else a ValueError
to_datetime(cs) ==
    LET shaped == /\ Len(cs) = 19
                  /\ cs[5] = "-" /\ cs[8] = "-" /\ cs[11] = " "
                  /\ cs[14] = ":" /\ cs[17] = ":"
                  /\ \A i \in (1..19) \ {5, 8, 11, 14, 17} : IsDigit(cs[i])
    IN  IF ~shaped THEN Raise("ValueError")
        ELSE LET y  == NumberOf(SubSeq(cs, 1, 4))
                 m  == NumberOf(SubSeq(cs, 6, 7))
                 d  == NumberOf(SubSeq(cs, 9, 10))
                 hh == NumberOf(SubSeq(cs, 12, 13))
                 mi == NumberOf(SubSeq(cs, 15, 16))
                 ss == NumberOf(SubSeq(cs, 18, 19))
             IN  IF /\ y >= 1 /\ m \in 1..12 /\ d >= 1 /\ d <= DaysInMonth(y, m)
                    /\ hh <= 23 /\ mi <= 59 /\ ss <= 59
                 THEN Ok([year |-> y, month |-> m, day |-> d, hour |-> hh])
                 ELSE Raise("ValueError")

sakamoto_arr == <<0, 3, 2, 5, 0, 3, 5, 1, 4, 6, 2, 4>>

\* Timestamp.dayofweek: Monday = 0 ... Sunday = 6
dayofweek(ts) ==
    LET y   == IF ts.month < 3 THEN ts.year - 1 ELSE ts.year
        day == (y + (y \div 4) - (y \div 100) + (y \div 400)
                  + sakamoto_arr[ts.month] + ts.day) % 7
    IN  (day + 6) % 7

\* season_calc as the formula of the comment on line 148 would compute it
season_calc_formula(month) == PyFloat(10 * (((month % 12) + 3) \div 3))

\* prediction.py lines 152-160: 0 = Spring, 1 = Summer, 2 = Fall, 3 = Winter
season_calc(month) ==
    IF month \in {3, 4, 5} THEN PyFloat(0)
    ELSE IF month \in {6, 7, 8} THEN PyFloat(10)
    ELSE IF month \in {9, 10, 11} THEN PyFloat(20)
    ELSE PyFloat(30)

-----------------------------------------------------------------------------
(* The feature table: prediction.py lines 164-193 *)

\* EXPECTED_COLUMNS with two of the time features exchanged
EXPECTED_COLUMNS_swapped ==
    <<"t1", "t2", "hum", "wind_speed",
      "weather_code", "is_holiday", "is_weekend", "season",
      "day_of_week", "hour", "month">>

EXPECTED_COLUMNS ==
    <<"t1", "t2", "hum", "wind_speed",
      "weather_code", "is_holiday", "is_weekend", "season",
      "hour", "day_of_week", "month">>

NoFrame == [columns |-> <<>>, data |-> <<>>, index |-> <<>>]

\* float(x) of a form value
float(x) ==
    IF x.t = "float" THEN Ok(x)
    ELSE IF x.t = "int" THEN Ok(PyFloat(10 * x.v))
    ELSE IF x.t = "str"
         THEN (IF Len(x.s) > 0 /\ AllDigits(x.s)
               THEN Ok(PyFloat(10 * NumberOf(x.s))) ELSE Raise("ValueError"))
    ELSE Raise("TypeError")

\* row_dict with the holiday radio copied into both flags
row_dict_flag_slip(a, timestamp, weather_code) ==
    << <<"t1", a.temp_feels>>,
       <<"t2", a.temp_feels>>,
       <<"hum", a.humidity>>,
       <<"wind_speed", a.wind_speed>>,
       <<"weather_code", weather_code>>,
       <<"is_holiday", a.is_holiday>>,
       <<"is_weekend", a.is_holiday>>,
       <<"season", season_calc(timestamp.month)>>,
       <<"hour", PyFloat(10 * timestamp.hour)>>,
       <<"day_of_week", PyFloat(10 * dayofweek(timestamp))>>,
       <<"month", PyFloat(10 * timestamp.month)>> >>

\* the dict literal of lines 172-190, as its (key, value) pairs in insertion order
row_dict(a, timestamp, weather_code) ==
    << <<"t1", a.temp_feels>>,
       <<"t2", a.temp_feels>>,
       <<"hum", a.humidity>>,
       <<"wind_speed", a.wind_speed>>,
       <<"weather_code", weather_code>>,
       <<"is_holiday", a.is_holiday>>,
       <<"is_weekend", a.is_weekend>>,
       <<"season", season_calc(timestamp.month)>>,
       <<"hour", PyFloat(10 * timestamp.hour)>>,
       <<"day_of_week", PyFloat(10 * dayofweek(timestamp))>>,
       <<"month", PyFloat(10 * timestamp.month)>> >>

\* pd.DataFrame([d], index=[ts]): one row, the columns in the dict's key order
DataFrame(d, index) ==
    [columns |-> [i \in 1..Len(d) |-> d[i][1]],
     data    |-> << [i \in 1..Len(d) |-> d[i][2]] >>,
     index   |-> index]

ColumnPos(df, c) == CHOOSE i \in 1..Len(df.columns) : df.columns[i] = c

\* df[cols]: the named columns in the order asked for; KeyError when one is missing
SelectColumns(df, cols) ==
    IF \A j \in 1..Len(cols) : \E i \in 1..Len(df.columns) : df.columns[i] = cols[j]
    THEN Ok([columns |-> cols,
             data    |-> [r \in 1..Len(df.data) |->
                            [j \in 1..Len(cols) |-> df.data[r][ColumnPos(df, cols[j])]]],
             index   |-> df.index])
    ELSE Raise("KeyError")

-----------------------------------------------------------------------------
(* Result formatting: prediction.py lines 196-201 *)

NaN == [t |-> "float", nan |-> TRUE]

\* int(x) without round: truncation toward zero
round_truncating(x) ==
    IF x = NaN THEN Raise("ValueError")
    ELSE Ok(IF x.v10 >= 0 THEN x.v10 \div 10 ELSE -((-x.v10) \div 10))

\* int(round(x)): round half to even; NaN cannot be converted
round(x) ==
    IF x = NaN THEN Raise("ValueError")
    ELSE LET q == x.v10 \div 10
             r == x.v10 % 10
         IN  Ok(IF r < 5 THEN q
                ELSE IF r > 5 THEN q + 1
                ELSE IF q % 2 = 0 THEN q ELSE q + 1)

max(a, b) == IF a >= b THEN a ELSE b

RECURSIVE Commas(_)
\* the ',' option of the format mini-language: groups of three digits
Commas(ds) ==
    IF Len(ds) <= 3 THEN ds
    ELSE Commas(SubSeq(ds, 1, Len(ds) - 3)) \o <<",">> \o SubSeq(ds, Len(ds) - 2, Len(ds))

\* f"{predicted_count:,}" for predicted_count >= 0
FormatCount(n) == Commas(Digits(n))

MsgDefault == <<"Enter input values and press 'Calculate Prediction'.">>
MsgNotLoaded == <<"Model not loaded. Check app.py console for loading error.">>
MsgWarning == <<"Please ensure all input fields have a valid value selected.">>
MsgSuccess(predicted_count) ==
    <<"Predicted Hourly Bike Shares: ">> \o FormatCount(predicted_count)
MsgFailed(type_name) ==
    <<"Prediction Failed (", type_name,
      "). Please check the console traceback for details.">>

-----------------------------------------------------------------------------
(* calculate_prediction: prediction.py lines 127-210 *)

\* what a call leaves behind: the exception that left it ("none" when it
\* returned), the returned (children, color), the table it built and the
\* tables it handed to predict
Return(msg, col, X, handed) ==
    [raised |-> "none", children |-> msg, color |-> col, X_new |-> X, predict_arg |-> handed]
Propagate(exc, X, handed) ==
    [raised |-> exc, children |-> <<>>, color |-> "", X_new |-> X, predict_arg |-> handed]

\* `n_clicks is None` in place of `not n_clicks`
Falsy_NoneOnly(n_clicks) == n_clicks = None

\* `not n_clicks`
Falsy(n_clicks) == n_clicks = None \/ (n_clicks.t = "int" /\ n_clicks.v = 0)

\* `model_pipeline is None`
IsNone(model) == model = None

\* input_list without its last entry
input_list_short(a) ==
    <<a.date_str, a.hour, a.temp_feels, a.humidity, a.wind_speed,
      a.weather, a.is_holiday>>

input_list(a) ==
    <<a.date_str, a.hour, a.temp_feels, a.humidity, a.wind_speed,
      a.weather, a.is_holiday, a.is_weekend>>

\* any(i is None for i in input_list)
AnyNone(list) == \E i \in 1..Len(list) : list[i] = None

\* classes that derive from BaseException but not from Exception
NotExceptionSubclass == {"KeyboardInterrupt", "SystemExit", "GeneratorExit"}

\* `except ValueError as e` in place of `except Exception as e`
Caught_ValueErrorOnly(exc) == exc = "ValueError"

\* `except Exception as e` matches e
Caught(exc) == exc \notin NotExceptionSubclass

\* lines 203-210
except_handler(exc, X, handed) ==
    IF Caught(exc) THEN Return(MsgFailed(exc), "danger", X, handed)
    ELSE Propagate(exc, X, handed)

\* model_pipeline.predict(X_new)[0]; est is what the estimator does with X_new
predict(model, X, est) ==
    IF model = None THEN Raise("AttributeError") ELSE est

\* lines 142-201, each step either raising into the handler or going on
try_block(model, a, est) ==
    LET dts == date_time_str(a.date_str, a.hour)
    IN  IF ~dts.ok THEN except_handler(dts.exc, NoFrame, <<>>) ELSE
    LET ts == to_datetime(dts.val)
    IN  IF ~ts.ok THEN except_handler(ts.exc, NoFrame, <<>>) ELSE
    LET timestamp == ts.val
        weather_code == float(a.weather)
    IN  IF ~weather_code.ok THEN except_handler(weather_code.exc, NoFrame, <<>>) ELSE
    LET frame == DataFrame(row_dict(a, timestamp, weather_code.val), <<timestamp>>)
        sel   == SelectColumns(frame, EXPECTED_COLUMNS)
    IN  IF ~sel.ok THEN except_handler(sel.exc, frame, <<>>) ELSE
    LET X == sel.val
        prediction_value == predict(model, X, est)
    IN  IF ~prediction_value.ok THEN except_handler(prediction_value.exc, X, <<X>>) ELSE
    LET rounded == round(prediction_value.val)
    IN  IF ~rounded.ok THEN except_handler(rounded.exc, X, <<X>>) ELSE
    LET predicted_count == max(0, rounded.val)
    IN  Return(MsgSuccess(predicted_count), "success", X, <<X>>)

\* calculate_prediction with checks 2 and 3 in the other order
calculate_prediction_inputs_first(model, a, est) ==
    IF Falsy(a.n_clicks) THEN Propagate("PreventUpdate", NoFrame, <<>>)
    ELSE IF AnyNone(input_list(a)) THEN Return(MsgWarning, "warning", NoFrame, <<>>)
    ELSE IF IsNone(model) THEN Return(MsgNotLoaded, "danger", NoFrame, <<>>)
    ELSE try_block(model, a, est)

calculate_prediction(model, a, est) ==
    IF Falsy(a.n_clicks) THEN Propagate("PreventUpdate", NoFrame, <<>>)
    ELSE IF IsNone(model) THEN Return(MsgNotLoaded, "danger", NoFrame, <<>>)
    ELSE IF AnyNone(input_list(a)) THEN Return(MsgWarning, "warning", NoFrame, <<>>)
    ELSE try_block(model, a, est)

-----------------------------------------------------------------------------
(* app.py: the model load (lines 40-50) and the routing callback (100-113) *)

\* lines 43-50, given whether the file exists and whether joblib.load returns
load_model(file_exists, load_ok) ==
    IF file_exists /\ load_ok THEN Pipeline ELSE None

\* `"Ready" if model_pipeline else "Error/Not Loaded"`
model_load_status(model) == IF model # None THEN "Ready" ELSE "Error/Not Loaded"

\* create_prediction_layout whose callback reads a handle that was never set
create_prediction_layout_stale(model) ==
    [layout  |-> [page |-> "prediction", status |-> model_load_status(model)],
     closure |-> None]

\* create_prediction_layout: the layout returned, and the handle the callback
\* registered by the call closes over
create_prediction_layout(model) ==
    [layout  |-> [page |-> "prediction", status |-> model_load_status(model)],
     closure |-> model]

Path(s) == [t |-> "str", s |-> s]

\* display_page that also accepts a trailing slash
display_page_lenient(pn, handle) ==
    IF pn = Path("/") THEN [layout |-> [page |-> "introduction"]]
    ELSE IF pn \in {Path("/analysis"), Path("/analysis/")}
         THEN [layout |-> [page |-> "dataanalysis"]]
    ELSE IF pn \in {Path("/prediction"), Path("/prediction/")}
         THEN create_prediction_layout(handle)
    ELSE [layout |-> [page |-> "404: Not Found", path |-> pn]]

display_page(pn, handle) ==
    IF pn = Path("/") THEN [layout |-> [page |-> "introduction"]]
    ELSE IF pn = Path("/analysis") THEN [layout |-> [page |-> "dataanalysis"]]
    ELSE IF pn = Path("/prediction") THEN create_prediction_layout(handle)
    ELSE [layout |-> [page |-> "404: Not Found", path |-> pn]]

-----------------------------------------------------------------------------
(* Bounds and the inputs drawn *)

MaxClicks == 1
MaxPredTenths == 26
LastYear == 2024

NClicks == {None} \cup {PyInt(n) : n \in 0..MaxClicks}

\* the 'YYYY-MM-DD' string the date picker holds for year y >= 1000
IsoDate(y, m, d) == PyStr(Digits(y) \o <<"-">> \o ZeroPad2(m) \o <<"-">> \o ZeroPad2(d))

\* a Saturday in July, a Monday in March, and a day that does not exist
Dates == {None, IsoDate(2024, 7, 6), IsoDate(2024, 3, 11), IsoDate(2023, 2, 30)}
Hours == {None, PyInt(9), PyInt(24)}
Temps == {None, PyInt(15)}
Humidities == {None, PyInt(60)}
WindSpeeds == {None, PyInt(20)}
Weathers == {None, PyFloat(30), PyStr(<<"R", "a", "i", "n">>)}
Holidays == {None, PyFloat(0), PyFloat(10)}
Weekends == {None, PyFloat(0), PyFloat(10)}

Pathnames ==
    {None, Path("/"), Path("/analysis"), Path("/prediction"),
     Path(""), Path("/prediction/"), Path("/Prediction"), Path("/ANALYSIS")}

\* what the estimator may do with a table: return a value, return NaN, or raise
PredTenths == (-MaxPredTenths..MaxPredTenths) \cup {9995, 12345678}
Outcomes == {Ok(PyFloat(v)) : v \in PredTenths}
            \cup {Ok(NaN), Raise("ValueError"), Raise("KeyError")}

CalYears == {1900, 2000, 2023} \cup (2024..LastYear)

\* the values the form components are created with (lines 50, 53, 59, 65, 75, 82)
DefaultInputs ==
    [temp_feels |-> PyInt(15), humidity |-> PyInt(60), wind_speed |-> PyInt(20),
     weather |-> PyFloat(30), is_holiday |-> PyFloat(0), is_weekend |-> PyFloat(0)]

-----------------------------------------------------------------------------
(* The state machine *)

NoCall == [t |-> "nocall"]
NoResult == [t |-> "noresult"]
NotAsked == [t |-> "notasked"]
NoSubmission == [t |-> "nosubmission"]
NoPage == [page |-> ""]
Unregistered == [t |-> "unregistered"]

Init ==
    /\ phase = "startup"
    /\ forecaster_pipeline = None
    /\ pathname = None
    /\ page_content = NoPage
    /\ model_pipeline = Unregistered
    /\ children = <<>>
    /\ color = ""
    /\ args = NoCall
    /\ outcome = NotAsked
    /\ result = NoResult
    /\ prev = NoSubmission

\* app.py lines 40-57: the module body runs once, then the server serves
Startup ==
    /\ phase = "startup"
    /\ \E file_exists \in BOOLEAN, load_ok \in BOOLEAN :
           forecaster_pipeline' = load_model(file_exists, load_ok)
    /\ phase' = "serving"
    /\ UNCHANGED <<pathname, page_content, model_pipeline, children, color,
                   args, outcome, result, prev>>

\* the routing callback answers a change of the URL; rendering the prediction
\* layout creates 'prediction-output' with its initial text and colour
\* (prediction.py lines 96-101), any other page has no such component
Navigate ==
    /\ phase = "serving"
    /\ args = NoCall
    /\ \E pn \in Pathnames :
         LET shown == display_page(pn, forecaster_pipeline)
         IN  /\ pathname' = pn
             /\ page_content' = shown.layout
             /\ IF shown.layout.page = "prediction"
                THEN /\ model_pipeline' = shown.closure
                     /\ children' = MsgDefault
                     /\ color' = "info"
                ELSE /\ model_pipeline' = model_pipeline
                     /\ children' = <<>>
                     /\ color' = ""
    /\ UNCHANGED <<phase, forecaster_pipeline, args, outcome, result, prev>>

\* one run of calculate_prediction on the arguments a, the estimator doing est
Call(a, est) ==
    /\ phase = "serving"
    /\ page_content.page = "prediction"
    /\ args = NoCall
    /\ args' = a
    /\ outcome' = est
    /\ result' = calculate_prediction(model_pipeline, a, est)
    /\ UNCHANGED <<phase, forecaster_pipeline, pathname, page_content,
                   model_pipeline, children, color, prev>>

\* the browser applies the answer: a returned pair replaces the alert's text
\* and colour, an exception leaves them as they were
Deliver ==
    /\ args # NoCall
    /\ IF result.raised = "none"
       THEN children' = result.children /\ color' = result.color
       ELSE UNCHANGED <<children, color>>
    /\ args' = NoCall
    /\ outcome' = NotAsked
    /\ result' = NoResult
    /\ UNCHANGED <<phase, forecaster_pipeline, pathname, page_content, model_pipeline>>

Submission(a, r) == [date_str |-> a.date_str, hour |-> a.hour, X |-> r.predict_arg[1]]

\* predict is reached by a call exactly when it is handed a table; only then
\* does the estimator's behaviour matter
ReachesPredict(model, a) ==
    calculate_prediction(model, a, Ok(PyFloat(0))).predict_arg # <<>>

OutcomesFor(model, a) ==
    IF ReachesPredict(model, a) THEN Outcomes ELSE {NotAsked}

\* the button is clicked, or the page has just loaded, with some form state
Click ==
    /\ phase = "serving"
    /\ page_content.page = "prediction"
    /\ args = NoCall
    /\ \E n \in NClicks, d \in Dates, h \in Hours, t \in Temps, hu \in Humidities,
          w \in WindSpeeds, we \in Weathers, ho \in Holidays, wk \in Weekends :
         LET a == [n_clicks |-> n, date_str |-> d, hour |-> h, temp_feels |-> t,
                   humidity |-> hu, wind_speed |-> w, weather |-> we,
                   is_holiday |-> ho, is_weekend |-> wk]
         IN  \E est \in OutcomesFor(model_pipeline, a) : Call(a, est)

Respond ==
    /\ Deliver
    /\ prev' = IF result.predict_arg # <<>> THEN Submission(args, result) ELSE prev

Next == Startup \/ Navigate \/ Click \/ Respond

Spec == Init /\ [][Next]_vars

-----------------------------------------------------------------------------
(* The calendar fields over every day of the years CalYears: the server is  *)
(* up with a loaded model and the prediction page shown, and the form keeps  *)
(* its defaults but for the date and the hour.                               *)

InitCalendar ==
    /\ phase = "serving"
    /\ forecaster_pipeline = Pipeline
    /\ pathname = Path("/prediction")
    /\ page_content = create_prediction_layout(Pipeline).layout
    /\ model_pipeline = Pipeline
    /\ children = MsgDefault
    /\ color = "info"
    /\ args = NoCall
    /\ outcome = NotAsked
    /\ result = NoResult
    /\ prev = NoSubmission

ClickCalendar ==
    /\ args = NoCall
    /\ \E y \in CalYears, m \in 1..12, d \in 1..31, h \in 0..23 :
        Call([n_clicks |-> PyInt(1), date_str |-> IsoDate(y, m, d), hour |-> PyInt(h)]
               @@ DefaultInputs,
             Ok(PyFloat(12345)))

RespondCalendar == Deliver /\ UNCHANGED prev

NextCalendar == ClickCalendar \/ RespondCalendar

SpecCalendar == InitCalendar /\ [][NextCalendar]_vars

-----------------------------------------------------------------------------
(* Properties.  A call is observed between Click and Respond, when args,    *)
(* outcome and result describe it.                                           *)

Called == args # NoCall

\* the click count carried by the arguments a (None counts as no click)
Clicks(a) == IF a.n_clicks = None THEN 0 ELSE a.n_clicks.v

NullInput(a) ==
    \/ a.date_str = None \/ a.hour = None \/ a.temp_feels = None
    \/ a.humidity = None \/ a.wind_speed = None \/ a.weather = None
    \/ a.is_holiday = None \/ a.is_weekend = None

Handed == result.predict_arg

\* the value of the named column in the single row of table X
Col(X, name) == X.data[1][CHOOSE i \in 1..Len(X.columns) : X.columns[i] = name]

WarningText == <<"Please ensure all input fields have a valid value selected.">>
NotLoadedText == <<"Model not loaded. Check app.py console for loading error.">>

\* C1 as stated: a click with a null input always gets the warning, whatever
\* the model handle is, and predict is not invoked.
C1_WarningWhateverHandle ==
    (Called /\ Clicks(args) >= 1 /\ NullInput(args)) =>
        /\ result.raised = "none"
        /\ result.children = WarningText
        /\ result.color = "warning"
        /\ Handed = <<>>

\* C1 amended: a click with a null input never invokes predict and builds no
\* table; it gets the warning when the model handle is loaded, and the
\* 'Model not loaded' error when the handle is None.
C1_NullInputShortCircuits ==
    (Called /\ Clicks(args) >= 1 /\ NullInput(args)) =>
        /\ result.raised = "none"
        /\ Handed = <<>>
        /\ result.X_new = NoFrame
        /\ IF model_pipeline = None
           THEN result.children = NotLoadedText /\ result.color = "danger"
           ELSE result.children = WarningText /\ result.color = "warning"

C1_Witness ==
    /\ Called /\ Clicks(args) >= 1
    /\ model_pipeline = Pipeline
    /\ args.is_weekend = None
    /\ args.date_str # None /\ args.hour # None /\ args.temp_feels # None
    /\ args.humidity # None /\ args.wind_speed # None /\ args.weather # None
    /\ args.is_holiday # None
    /\ result.color = "warning"

\* C2: with the model handle None the server still serves the prediction
\* route (status 'Error/Not Loaded'), and every click returns the 'Model not
\* loaded' message with colour 'danger' for all form inputs, no table built.
C2_NotLoaded ==
    (phase = "serving" /\ forecaster_pipeline = None) =>
        /\ pathname = Path("/prediction") =>
               page_content = [page |-> "prediction", status |-> "Error/Not Loaded"]
        /\ (Called /\ Clicks(args) >= 1) =>
               /\ result.raised = "none"
               /\ result.children = NotLoadedText
               /\ result.color = "danger"
               /\ result.X_new = NoFrame
               /\ Handed = <<>>

C2_Witness ==
    /\ forecaster_pipeline = None
    /\ pathname = Path("/prediction")
    /\ Called /\ Clicks(args) >= 1
    /\ NullInput(args)
    /\ result.children = NotLoadedText

FailedText(type_name) ==
    <<"Prediction Failed (", type_name,
      "). Please check the console traceback for details.">>

\* C3: the only exception that leaves the callback is PreventUpdate, and only
\* for a falsy n_clicks; a click with a loaded model and no null input whose
\* feature assembly, predict or formatting raises returns 'Prediction Failed
\* (<type>)' with colour 'danger', naming predict's exception when it raised.
C3_ExceptionsCaught ==
    Called =>
        /\ result.raised \in {"none", "PreventUpdate"}
        /\ result.raised = "PreventUpdate" <=> Clicks(args) = 0
        /\ (Clicks(args) >= 1 /\ model_pipeline = Pipeline /\ ~NullInput(args)) =>
              /\ result.color \in {"success", "danger"}
              /\ result.color = "danger" =>
                    \E e \in {"ValueError", "TypeError", "KeyError"} :
                        result.children = FailedText(e)
              /\ (args.hour = PyInt(24) \/ args.weather.t = "str") =>
                    result.children = FailedText("ValueError")
              /\ (Handed # <<>> /\ ~outcome.ok) =>
                    result.children = FailedText(outcome.exc) /\ result.color = "danger"
              /\ (Handed # <<>> /\ outcome = Ok(NaN)) =>
                    result.children = FailedText("ValueError") /\ result.color = "danger"

C3_Witness ==
    /\ Called /\ Clicks(args) >= 1 /\ model_pipeline = Pipeline /\ ~NullInput(args)
    /\ Handed # <<>>
    /\ outcome = Raise("KeyError")
    /\ result.raised = "none"
    /\ result.children = FailedText("KeyError")

\* calendar arithmetic, counted in days from 0001-01-01 (a Monday)
RefLeap(y) == (y % 4 = 0 /\ y % 100 # 0) \/ y % 400 = 0
RefMonthLen(y, m) ==
    <<31, IF RefLeap(y) THEN 29 ELSE 28, 31, 30, 31, 30, 31, 31, 30, 31, 30, 31>>[m]
RECURSIVE RefDaysBefore(_, _)
RefDaysBefore(y, m) ==
    IF m = 1 THEN 0 ELSE RefDaysBefore(y, m - 1) + RefMonthLen(y, m - 1)
RefOrdinal(y, m, d) ==
    365 * (y - 1) + ((y - 1) \div 4) - ((y - 1) \div 100) + ((y - 1) \div 400)
      + RefDaysBefore(y, m) + d
RefWeekday(y, m, d) == (RefOrdinal(y, m, d) - 1) % 7
RefSeason(m) ==
    CASE m \in {3, 4, 5} -> 0
      [] m \in {6, 7, 8} -> 1
      [] m \in {9, 10, 11} -> 2
      [] m \in {12, 1, 2} -> 3

\* the year, month and day written in a 'YYYY-MM-DD' form value
YearIn(date) == NumberOf(SubSeq(date.s, 1, 4))
MonthIn(date) == NumberOf(SubSeq(date.s, 6, 7))
DayIn(date) == NumberOf(SubSeq(date.s, 9, 10))

\* C4: for every valid date and every hour 0..23 a table is built whose
\* season is 0 for months 3-5, 1 for 6-8, 2 for 9-11 and 3 for 12, 1, 2, whose
\* hour is the selected hour, whose month is the date's month and whose
\* day_of_week is the date's weekday with Monday = 0 and Sunday = 6.
C4_CalendarFields ==
    Called =>
        LET y == YearIn(args.date_str)
            m == MonthIn(args.date_str)
            d == DayIn(args.date_str)
        IN  d <= RefMonthLen(y, m) =>
              /\ Handed # <<>>
              /\ Col(Handed[1], "season") = PyFloat(10 * RefSeason(m))
              /\ Col(Handed[1], "hour") = PyFloat(10 * args.hour.v)
              /\ Col(Handed[1], "month") = PyFloat(10 * m)
              /\ Col(Handed[1], "day_of_week") = PyFloat(10 * RefWeekday(y, m, d))

\* 29 February 2000, a Tuesday in winter, at 23:00
C4_Witness ==
    /\ Called
    /\ args.date_str = IsoDate(2000, 2, 29)
    /\ args.hour = PyInt(23)
    /\ Handed # <<>>
    /\ Col(Handed[1], "season") = PyFloat(30)
    /\ Col(Handed[1], "day_of_week") = PyFloat(10)
    /\ Col(Handed[1], "hour") = PyFloat(230)

\* C5: predict is handed at most one table per call, and each such table has
\* exactly one row and exactly the eleven columns of the schema, in order;
\* every click with a loaded model, no null input, a real date, an hour up to
\* 23 and a numeric weather code hands over such a table.
C5_Schema ==
    Called =>
        /\ Len(Handed) <= 1
        /\ \A i \in 1..Len(Handed) :
              /\ Handed[i].columns =
                    <<"t1", "t2", "hum", "wind_speed", "weather_code", "is_holiday",
                      "is_weekend", "season", "hour", "day_of_week", "month">>
              /\ Len(Handed[i].data) = 1
              /\ Len(Handed[i].data[1]) = 11
              /\ Len(Handed[i].index) = 1
        /\ result.color = "success" => Len(Handed) = 1
        /\ ( /\ Clicks(args) >= 1 /\ model_pipeline = Pipeline /\ ~NullInput(args)
             /\ DayIn(args.date_str) <= RefMonthLen(YearIn(args.date_str), MonthIn(args.date_str))
             /\ args.hour.v <= 23
             /\ args.weather.t # "str" ) => Len(Handed) = 1

C5_Witness ==
    /\ Called
    /\ Len(Handed) = 1
    /\ Handed[1].columns[9] = "hour"
    /\ Handed[1].data[1][9] = PyFloat(90)
    /\ Handed[1].data[1][10] = PyFloat(50)
    /\ result.color = "success"

\* the season, hour, day_of_week and month of a table
Derived(X) == <<Col(X, "season"), Col(X, "hour"), Col(X, "day_of_week"), Col(X, "month")>>

SameDateHour == prev.date_str = args.date_str /\ prev.hour = args.hour

WeekendAgrees(X) ==
    Col(X, "is_weekend") = PyFloat(10) <=>
        Col(X, "day_of_week") \in {PyFloat(50), PyFloat(60)}

\* C6 as stated: two submissions with the same date and hour carry the same
\* season, hour, day_of_week, month and weekend flag whatever the other
\* inputs, and the weekend flag is 1 exactly on Saturday and Sunday.
C6_WeekendDerived ==
    (Called /\ Handed # <<>>) =>
        /\ (prev # NoSubmission /\ SameDateHour) =>
              /\ Derived(Handed[1]) = Derived(prev.X)
              /\ Col(Handed[1], "is_weekend") = Col(prev.X, "is_weekend")
        /\ WeekendAgrees(Handed[1])

\* C6 amended: two submissions with the same date and hour carry the same
\* season, hour, day_of_week and month whatever the other inputs; the weekend
\* flag is the value of the weekend radio, and the holiday flag that of the
\* holiday radio.
C6_DerivedFromDateHour ==
    (Called /\ Handed # <<>>) =>
        /\ (prev # NoSubmission /\ SameDateHour) =>
              Derived(Handed[1]) = Derived(prev.X)
        /\ Col(Handed[1], "is_weekend") = args.is_weekend
        /\ Col(Handed[1], "is_holiday") = args.is_holiday

\* two submissions for the same Saturday 09:00 that differ in both radios
C6_Witness ==
    /\ Called /\ Handed # <<>>
    /\ prev # NoSubmission /\ SameDateHour
    /\ args.date_str = IsoDate(2024, 7, 6)
    /\ Col(prev.X, "is_weekend") = PyFloat(10)
    /\ Col(Handed[1], "is_weekend") = PyFloat(0)
    /\ Col(prev.X, "is_holiday") = PyFloat(0)
    /\ Col(Handed[1], "is_holiday") = PyFloat(10)
    /\ Col(Handed[1], "day_of_week") = PyFloat(50)

\* the page display_page is to return for pathname pn with model handle h
RefPage(pn, h) ==
    CASE pn = Path("/") -> [page |-> "introduction"]
      [] pn = Path("/analysis") -> [page |-> "dataanalysis"]
      [] pn = Path("/prediction") ->
             [page |-> "prediction",
              status |-> IF h = Pipeline THEN "Ready" ELSE "Error/Not Loaded"]
      [] OTHER -> [page |-> "404: Not Found", path |-> pn]

\* C7: the page shown is a function of the pathname last routed alone: '/',
\* '/analysis' and '/prediction' give their layouts (the prediction layout
\* built with the current model handle), every other pathname, None and ''
\* and '/prediction/' and other casings included, gives the 404 container,
\* whatever was shown before.
C7_Routing ==
    page_content # NoPage =>
        page_content = RefPage(pathname, forecaster_pipeline)

C7_Witness ==
    /\ pathname = Path("/prediction/")
    /\ page_content = [page |-> "404: Not Found", path |-> Path("/prediction/")]
    /\ prev # NoSubmission

\* C8: once the server serves, no step changes forecaster_pipeline, and the
\* handle every registered prediction callback closes over is that handle.
C8_HandleReadOnly ==
    [][ /\ phase = "serving" => forecaster_pipeline' = forecaster_pipeline
        /\ phase' = "serving" =>
              model_pipeline' \in {Unregistered, forecaster_pipeline'} ]_vars

C8_Witness ==
    /\ phase = "serving"
    /\ forecaster_pipeline = Pipeline
    /\ model_pipeline = Pipeline
    /\ prev # NoSubmission
    /\ Called /\ Handed # <<>>

\* C9: a call with n_clicks None or 0 raises PreventUpdate, whatever the model
\* handle and the form inputs: it returns no message, builds no table and does
\* not invoke predict, and answering it leaves the alert's text and colour as
\* they were.
C9_PreventUpdate ==
    [][ /\ (args' # NoCall /\ Clicks(args') = 0) =>
              /\ result'.raised = "PreventUpdate"
              /\ result'.children = <<>>
              /\ result'.X_new = NoFrame
              /\ result'.predict_arg = <<>>
              /\ children' = children /\ color' = color
        /\ (args # NoCall /\ Clicks(args) = 0 /\ args' = NoCall) =>
              children' = children /\ color' = color ]_vars

C9_Witness ==
    /\ Called
    /\ args.n_clicks = PyInt(0)
    /\ model_pipeline = None
    /\ NullInput(args)
    /\ result.raised = "PreventUpdate"
    /\ children = MsgDefault /\ color = "info"

RECURSIVE StripCommas(_)
StripCommas(cs) ==
    IF cs = <<>> THEN <<>>
    ELSE IF cs[1] = "," THEN StripCommas(Tail(cs))
    ELSE <<cs[1]>> \o StripCommas(Tail(cs))

\* the count written after the prefix of a success message
ShownCount(msg) == NumberOf(StripCommas(Tail(msg)))

\* C10: a 'success' answer comes from exactly one predict call that returned
\* a number, and shows 'Predicted Hourly Bike Shares: N' where N is written in
\* digits (grouped by commas), is not negative, and is the returned value
\* rounded to a nearest integer, or 0 when that integer is negative.
C10_SuccessCount ==
    (Called /\ result.color = "success") =>
        /\ result.raised = "none"
        /\ Len(Handed) = 1
        /\ outcome.ok /\ outcome.val # NaN
        /\ Head(result.children) = "Predicted Hourly Bike Shares: "
        /\ Len(result.children) >= 2
        /\ \A i \in 2..Len(result.children) :
              IsDigit(result.children[i]) \/ result.children[i] = ","
        /\ LET v10 == outcome.val.v10
               N   == ShownCount(result.children)
           IN  /\ N >= 0
               /\ \E R \in (v10 \div 10)..((v10 \div 10) + 1) :
                     /\ 10 * R - v10 <= 5 /\ v10 - 10 * R <= 5
                     /\ N = IF R < 0 THEN 0 ELSE R

\* 2.6 is shown as 3
C10_Witness ==
    /\ Called /\ result.color = "success"
    /\ outcome = Ok(PyFloat(26))
    /\ result.children = <<"Predicted Hourly Bike Shares: ", "3">>

====
